---------------------------- MODULE Spec2Model ----------------------------
(***************************************************************************)
(* Model of smartsheet_gpt_agent.py: a Flask relay with an access gate     *)
(* (before_request), two debug routes, /analyze, /analyze-attachment and   *)
(* /health.  One request is in flight at a time; the program keeps no      *)
(* state between requests except its start-up configuration.               *)
(*                                                                         *)
(* Representation.  A Python str is a sequence of one-character strings.   *)
(* An optional string (os.getenv(..), headers.get(..), attachment.url) is  *)
(* <<>> for None and <<s>> for the string s.  A downloaded byte buffer is  *)
(* the record [len, data]: its length and a tag for its content.  The      *)
(* outcomes of the external services (Smartsheet, the download URL, the    *)
(* parsers, OpenAI) are chosen nondeterministically in the step that       *)
(* performs the call.                                                      *)
(***************************************************************************)
EXTENDS Integers, Sequences, FiniteSets, TLC

\* ------------------------------------------------------------------ bounds
\* Downloaded sizes go up to Threshold + MaxOver bytes.
MaxOver == 1
\* Extracted / supplied texts go up to MAX_CHARS + MaxTextOver characters.
MaxTextOver == 1

\* --------------------------------------------------------- program constants
\* 75 * 1024 * 1024 in compress_if_large
Threshold == 75 * 1024 * 1024
\* the slice bound in content[:8000] and raw_text[:8000]
MAX_CHARS == 8000

Min(a, b) == IF a < b THEN a ELSE b

None == <<>>

\* ------------------------------------------------------------------ strings
s_pdf == <<"p","d","f">>
s_text == <<"t","e","x","t">>
s_spreadsheet == <<"s","p","r","e","a","d","s","h","e","e","t">>
s_excel == <<"e","x","c","e","l">>
s_wordprocessingml == <<"w","o","r","d","p","r","o","c","e","s","s","i","n","g","m","l">>
s_msword == <<"m","s","w","o","r","d">>
s_zip == <<".","z","i","p">>

\* `sub in s` on Python strings: sub occurs in s as a contiguous run.
Contains(sub, s) ==
    \E i \in 0..(Len(s) - Len(sub)) : SubSeq(s, i + 1, i + Len(sub)) = sub

\* Sample MIME strings: <type>/<subtype>, and the empty string.
MainTypes ==
    { <<"a","p","p","l","i","c","a","t","i","o","n","/">>,
      <<"t","e","x","t","/">>,
      <<"i","m","a","g","e","/">> }

SubTypes ==
    { s_pdf,
      <<"P","D","F">>,
      <<"p","l","a","i","n">>,
      <<"c","s","v">>,
      <<"v","n","d",".">> \o s_spreadsheet \o <<"m","l",".","s","h","e","e","t">>,
      <<"v","n","d",".","m","s","-">> \o s_excel,
      s_msword,
      <<"v","n","d",".">> \o s_wordprocessingml \o <<".","d","o","c">>,
      <<"v","n","d",".","o","d",".">> \o s_text,
      <<"x","-">> \o s_excel \o <<"-">> \o s_msword,
      <<"p","n","g">> }

MimeTypes == { t \o s : t \in MainTypes, s \in SubTypes } \cup { <<>> }

\* A text of n characters; position i holds a character that depends on i.
CharAt(i) == IF i % 3 = 0 THEN "a" ELSE IF i % 3 = 1 THEN "b" ELSE "c"
TextOfLen(n) == [i \in 1..n |-> CharAt(i)]
TextLens == {0, 1, MAX_CHARS - 1} \cup (MAX_CHARS..(MAX_CHARS + MaxTextOver))
Texts == { TextOfLen(n) : n \in TextLens }

\* ------------------------------------------------------------------- values
\* JSON values found under a key of the request body (None when absent).
NoneV == [t |-> "none", s |-> <<>>, n |-> 0]
StrV(s) == [t |-> "str", s |-> s, n |-> 0]
IntV(n) == [t |-> "int", s |-> <<>>, n |-> n]

\* Python truthiness of such a value (`not content`).
Truthy(v) ==
    CASE v.t = "none" -> FALSE
      [] v.t = "str" -> Len(v.s) > 0
      [] v.t = "int" -> v.n # 0

ContentValues == {NoneV, IntV(5)} \cup { StrV(t) : t \in Texts }
QueryValues == {NoneV, StrV(<<>>), StrV(<<"S","u","m">>)}

\* request.json: a JSON object, or the JSON value null.
Bodies ==
    { [kind |-> "object", content |-> c, query |-> q] :
        c \in ContentValues, q \in QueryValues }
    \cup { [kind |-> "null", content |-> NoneV, query |-> NoneV] }
NoBody == [kind |-> "none", content |-> NoneV, query |-> NoneV]

TheSecret == <<"s3cret">>
\* os.getenv("INTERNAL_SECRET_CODE"): unset, or set.
SecretCodes == {None, TheSecret}
\* request.headers.get("X-Internal-Access"): absent, empty, wrong, right.
HeaderValues == {None, <<"">>, <<"wrong">>, TheSecret}

Endpoints ==
    {"healthcheck", "test_download_debug", "fallback_get_attachment",
     "analyze_content", "analyze_attachment"}

Requests ==
    { [endpoint |-> e, header |-> h, body |-> b] :
        e \in Endpoints, h \in HeaderValues,
        b \in {NoBody} \cup Bodies }

\* Attachment objects returned by ss_client.Attachments.get_attachment.
TheUrl == <<"https://files/1">>
TheName == <<"r","e","p","o","r","t">>
Attachments ==
    { [hasUrl |-> TRUE, url |-> TheUrl, name |-> TheName, mime_type |-> m] :
        m \in MimeTypes }
    \cup { [hasUrl |-> FALSE, url |-> None, name |-> TheName, mime_type |-> <<>>],
           [hasUrl |-> TRUE, url |-> None, name |-> TheName, mime_type |-> <<>>],
           [hasUrl |-> TRUE, url |-> <<"">>, name |-> TheName, mime_type |-> <<>>] }
NoAttachment == [hasUrl |-> FALSE, url |-> None, name |-> <<>>, mime_type |-> <<>>]

\* Byte buffers.
ByteLens == {0, 1, Threshold - 1} \cup (Threshold..(Threshold + MaxOver))
Blob(n) == [len |-> n, data |-> "raw"]
NoBytes == [len |-> 0, data |-> "unset"]
\* HTTP responses of the download URL: requests.get returns them whatever
\* their status; only a transport failure raises.
DownloadStatuses == {200, 404}
NoFileRes == [status |-> 0, content |-> NoBytes]

\* Responses of this service.
Resp(st, k, m, d) == [status |-> st, kind |-> k, msg |-> m, detail |-> d]
NoResponse == Resp(0, "none", "", <<>>)

VARIABLES
    SECRET_CODE,   \* module global read at start-up
    pc,            \* position of the request in flight
    request,       \* the request in flight
    handlerRan,    \* a route handler was entered for this request
    calls,         \* the steps performed for this request, in order
    attachment,    \* analyze_attachment: attachment
    file_res,      \* analyze_attachment: file_res
    file_bytes,    \* analyze_attachment: file_bytes
    compressed,    \* analyze_attachment: <<compressed_type, compressed_name>>
    content_type,  \* analyze_attachment: content_type
    branches,      \* extractor branches entered for this request
    extracted,     \* how the selected branch ended: "none", "raised", "text"
    raw_text,      \* analyze_attachment: raw_text
    sent,          \* user message submitted to the completion API
    upstream,      \* the failure reported by an upstream, if any
    response,      \* the response returned
    respCount      \* number of responses produced for this request

vars ==
    <<SECRET_CODE, pc, request, handlerRan, calls, attachment, file_res,
      file_bytes, compressed, content_type, branches, extracted, raw_text,
      sent, upstream, response, respCount>>

locals ==
    <<attachment, file_res, file_bytes, compressed, content_type, branches,
      extracted, raw_text, sent, upstream>>

NoRequest == [endpoint |-> "none", header |-> None, body |-> NoBody]
NoUpstream == [step |-> "none", status |-> 0, msg |-> <<>>]

Fresh ==
    /\ pc = "idle"
    /\ request = NoRequest
    /\ handlerRan = FALSE
    /\ calls = <<>>
    /\ attachment = NoAttachment
    /\ file_res = NoFileRes
    /\ file_bytes = NoBytes
    /\ compressed = <<None, None>>
    /\ content_type = <<>>
    /\ branches = <<>>
    /\ extracted = "none"
    /\ raw_text = <<>>
    /\ sent = <<>>
    /\ upstream = NoUpstream
    /\ response = NoResponse
    /\ respCount = 0

Init ==
    /\ SECRET_CODE \in SecretCodes
    /\ Fresh

\* return <response> from a handler (or from before_request)
Respond(r) ==
    /\ response' = r
    /\ respCount' = respCount + 1
    /\ pc' = "done"

\* A request arrives; Flask resolves its endpoint.
Receive ==
    /\ pc = "idle"
    /\ \E r \in Requests :
        /\ (r.endpoint = "analyze_content") <=> (r.body # NoBody)
        /\ request' = r
    /\ pc' = "gate"
    /\ UNCHANGED <<SECRET_CODE, handlerRan, calls, locals, response, respCount>>

\* The test of auth_check: the endpoint is gated and the header is not the secret.
Rejected(endpoint, header, secret) ==
    /\ endpoint \notin {"healthcheck"}
    /\ header # secret

auth_check ==
    /\ pc = "gate"
    /\ IF Rejected(request.endpoint, request.header, SECRET_CODE)
       THEN Respond(Resp(403, "error",
                         "Unauthorized. Invalid internal access code.", <<>>))
       ELSE /\ pc' = request.endpoint
            /\ UNCHANGED <<response, respCount>>
    /\ UNCHANGED <<SECRET_CODE, request, handlerRan, calls, locals>>

healthcheck ==
    /\ pc = "healthcheck"
    /\ handlerRan' = TRUE
    /\ Respond(Resp(200, "status", "ok", <<>>))
    /\ UNCHANGED <<SECRET_CODE, request, calls, locals>>

\* ------------------------------------------------------------ debug routes
\* Outcomes of a call that may raise: the exception's message and, when the
\* upstream answered, its status.
Raised(st, m) == [status |-> st, msg |-> m]
LookupErrors == {Raised(404, <<"Not Found">>), Raised(0, <<"connection reset">>)}
NetworkErrors == {Raised(0, <<"connection timed out">>)}
ModelErrors == {Raised(429, <<"rate limit">>)}

test_download_debug ==
    /\ pc = "test_download_debug"
    /\ handlerRan' = TRUE
    /\ calls' = Append(calls, "download")
    /\ \/ \E st \in {200, 302, 404} :
            /\ Respond(Resp(200, "debug", "status_code", <<st>>))
            /\ UNCHANGED upstream
       \/ \E e \in NetworkErrors :
            /\ upstream' = [step |-> "download", status |-> e.status, msg |-> e.msg]
            /\ Respond(Resp(502, "error", "", e.msg))
    /\ UNCHANGED <<SECRET_CODE, request, attachment, file_res, file_bytes,
                   compressed, content_type, branches, extracted, raw_text, sent>>

fallback_get_attachment ==
    /\ pc = "fallback_get_attachment"
    /\ handlerRan' = TRUE
    /\ calls' = Append(calls, "lookup")
    /\ \/ \E att \in Attachments :
            /\ attachment' = att
            /\ IF att.hasUrl
               THEN Respond(Resp(200, "metadata", "name", att.name))
               ELSE Respond(Resp(500, "error", "", <<"no attribute 'url'">>))
            /\ UNCHANGED upstream
       \/ \E e \in LookupErrors :
            /\ upstream' = [step |-> "lookup", status |-> e.status, msg |-> e.msg]
            /\ Respond(Resp(500, "error", "", e.msg))
            /\ UNCHANGED attachment
    /\ UNCHANGED <<SECRET_CODE, request, file_res, file_bytes, compressed,
                   content_type, branches, extracted, raw_text, sent>>

\* ------------------------------------------------------------ prompt assembly
\* Off by one: the slice stops one character early.
Truncate_short(text) == SubSeq(text, 1, Min(Len(text), MAX_CHARS - 1))

\* text[:8000]
Truncate(text) == SubSeq(text, 1, Min(Len(text), MAX_CHARS))

\* f"{instruction}\n\n{text[:8000]}"
UserMessage(instruction, text) == instruction \o <<"\n", "\n">> \o Truncate(text)

AnalyzeInstruction == <<"Analyze this document:">>

\* ------------------------------------------------------------------ /analyze
\* `not content or not query`
MissingField(content, query) == ~Truthy(content) \/ ~Truthy(query)

analyze_content ==
    /\ pc = "analyze_content"
    /\ handlerRan' = TRUE
    /\ LET data == request.body IN
       IF data.kind # "object"
       THEN \* request.json is None: data.get raises outside any try block
            /\ Respond(Resp(500, "error", "Internal Server Error", <<>>))
            /\ UNCHANGED <<calls, sent, upstream>>
       ELSE IF MissingField(data.content, data.query)
       THEN /\ Respond(Resp(400, "error",
                            "Both 'content' and 'query' are required.", <<>>))
            /\ UNCHANGED <<calls, sent, upstream>>
       ELSE IF data.content.t # "str"
       THEN \* content[:8000] raises inside the try block, before the call
            /\ Respond(Resp(502, "error", "OpenAI error",
                            <<"object is not subscriptable">>))
            /\ UNCHANGED <<calls, sent, upstream>>
       ELSE /\ calls' = Append(calls, "model")
            /\ sent' = UserMessage(data.query.s, data.content.s)
            /\ \/ /\ Respond(Resp(200, "response", "", <<"answer">>))
                  /\ UNCHANGED upstream
               \/ \E e \in ModelErrors :
                    /\ upstream' = [step |-> "model", status |-> e.status,
                                    msg |-> e.msg]
                    /\ Respond(Resp(502, "error", "OpenAI error", e.msg))
    /\ UNCHANGED <<SECRET_CODE, request, attachment, file_res, file_bytes,
                   compressed, content_type, branches, extracted, raw_text>>

\* ------------------------------------------------------- /analyze-attachment
\* The exception is reported as a server error instead.
FetchFailed_500(e) == Resp(500, "error", "Internal Server Error", e.msg)

\* the except clause of the fetch block
FetchFailed(e) == Resp(400, "error", "Attachment fetch failed", e.msg)

\* Only an absent attribute or None is caught, not an empty string.
MissingUrl_none_only(att) == ~att.hasUrl \/ att.url = None

\* `not hasattr(attachment, 'url') or not attachment.url`
MissingUrl(att) == ~att.hasUrl \/ att.url = None \/ att.url = <<"">>

analyze_attachment_lookup ==
    /\ pc = "analyze_attachment"
    /\ handlerRan' = TRUE
    /\ calls' = Append(calls, "lookup")
    /\ \/ \E att \in Attachments :
            /\ attachment' = att
            /\ IF MissingUrl(att)
               THEN Respond(Resp(404, "error", "Attachment object missing URL.", <<>>))
               ELSE /\ pc' = "download"
                    /\ UNCHANGED <<response, respCount>>
            /\ UNCHANGED upstream
       \/ \E e \in LookupErrors :
            /\ upstream' = [step |-> "lookup", status |-> e.status, msg |-> e.msg]
            /\ Respond(FetchFailed(e))
            /\ UNCHANGED attachment
    /\ UNCHANGED <<SECRET_CODE, request, file_res, file_bytes, compressed,
                   content_type, branches, extracted, raw_text, sent>>

analyze_attachment_download ==
    /\ pc = "download"
    /\ calls' = Append(calls, "download")
    /\ \/ \E st \in DownloadStatuses, n \in ByteLens :
            /\ file_res' = [status |-> st, content |-> Blob(n)]
            /\ file_bytes' = Blob(n)
            /\ upstream' = IF st = 200 THEN upstream
                           ELSE [step |-> "download", status |-> st,
                                 msg |-> <<"error body">>]
            /\ pc' = "sizeguard"
            /\ UNCHANGED <<response, respCount>>
       \/ \E e \in NetworkErrors :
            /\ upstream' = [step |-> "download", status |-> e.status, msg |-> e.msg]
            /\ Respond(FetchFailed(e))
            /\ UNCHANGED <<file_res, file_bytes>>
    /\ UNCHANGED <<SECRET_CODE, request, handlerRan, attachment, compressed,
                   content_type, branches, extracted, raw_text, sent>>

\* The comparison includes the threshold itself.
IsLarge_inclusive(buf) == buf.len >= Threshold

\* len(file_bytes) > 75 * 1024 * 1024
IsLarge(buf) == buf.len > Threshold

\* The single-entry archive written by zipfile; len is the size of the entry
\* it holds.  The archive is never read again by the handler.
Zip(buf, filename) == [len |-> buf.len, data |-> "zip"]

\* Returns <<bytes, type, name>>.
compress_if_large(buf, filename) ==
    IF IsLarge(buf)
    THEN <<Zip(buf, filename), <<"application/zip">>, filename \o s_zip>>
    ELSE <<buf, None, None>>

analyze_attachment_size_guard ==
    /\ pc = "sizeguard"
    /\ calls' = Append(calls, "sizeguard")
    /\ LET r == compress_if_large(file_bytes, attachment.name) IN
        /\ file_bytes' = r[1]
        /\ compressed' = <<r[2], r[3]>>
        /\ IF r[2] # None
           THEN Respond(Resp(200, "note", "File was compressed due to size.", r[3]))
           ELSE /\ pc' = "extract"
                /\ UNCHANGED <<response, respCount>>
    /\ UNCHANGED <<SECRET_CODE, request, handlerRan, attachment, file_res,
                   content_type, branches, extracted, raw_text, sent, upstream>>

\* The text and spreadsheet tests are swapped.
Dispatch_swapped(ct) ==
    IF Contains(s_pdf, ct) THEN "pdf"
    ELSE IF Contains(s_spreadsheet, ct) \/ Contains(s_excel, ct) THEN "excel"
    ELSE IF Contains(s_text, ct) THEN "text"
    ELSE IF Contains(s_wordprocessingml, ct) \/ Contains(s_msword, ct) THEN "docx"
    ELSE "unsupported"

\* The if/elif chain on content_type.
Dispatch(ct) ==
    IF Contains(s_pdf, ct) THEN "pdf"
    ELSE IF Contains(s_text, ct) THEN "text"
    ELSE IF Contains(s_spreadsheet, ct) \/ Contains(s_excel, ct) THEN "excel"
    ELSE IF Contains(s_wordprocessingml, ct) \/ Contains(s_msword, ct) THEN "docx"
    ELSE "unsupported"

\* What a branch can produce from the buffer: an exception, or a text.  A
\* UTF-8 decode yields at most one character per byte and a character only
\* from bytes; the document parsers raise on an empty buffer.
ParseError == [raised |-> TRUE, msg |-> <<"cannot parse">>, text |-> <<>>]
Parsed(t) == [raised |-> FALSE, msg |-> <<>>, text |-> t]
ParseOutcomes(branch, bytes) ==
    IF branch = "text"
    THEN { Parsed(t) : t \in { u \in Texts : /\ Len(u) <= bytes.len
                                             /\ (Len(u) = 0) <=> (bytes.len = 0) } }
         \cup (IF bytes.len > 0 THEN {ParseError} ELSE {})
    ELSE {ParseError}
         \cup (IF bytes.len > 0 THEN { Parsed(t) : t \in Texts } ELSE {})

\* The emptiness test is missing.
EmptyText_never(raw) == FALSE

\* `not raw_text`
EmptyText(raw) == Len(raw) = 0

analyze_attachment_extract ==
    /\ pc = "extract"
    /\ content_type' = attachment.mime_type
    /\ LET branch == Dispatch(attachment.mime_type) IN
       IF branch = "unsupported"
       THEN /\ Respond(Resp(415, "error", "Unsupported file type",
                            attachment.mime_type))
            /\ UNCHANGED <<calls, branches, extracted, raw_text>>
       ELSE /\ calls' = Append(calls, "extract")
            /\ branches' = Append(branches, branch)
            /\ \E out \in ParseOutcomes(branch, file_bytes) :
                IF out.raised
                THEN /\ Respond(Resp(422, "error", "Document parsing failed", out.msg))
                     /\ extracted' = "raised"
                     /\ UNCHANGED raw_text
                ELSE /\ raw_text' = out.text
                     /\ extracted' = "text"
                     /\ IF EmptyText(out.text)
                        THEN Respond(Resp(422, "error", "Failed to extract text.", <<>>))
                        ELSE /\ pc' = "model"
                             /\ UNCHANGED <<response, respCount>>
    /\ UNCHANGED <<SECRET_CODE, request, handlerRan, attachment, file_res,
                   file_bytes, compressed, sent, upstream>>

analyze_attachment_model ==
    /\ pc = "model"
    /\ calls' = Append(calls, "model")
    /\ sent' = UserMessage(AnalyzeInstruction, raw_text)
    /\ \/ /\ Respond(Resp(200, "analysis", "", <<"answer">>))
          /\ UNCHANGED upstream
       \/ \E e \in ModelErrors :
            /\ upstream' = [step |-> "model", status |-> e.status, msg |-> e.msg]
            /\ Respond(Resp(502, "error", "OpenAI error", e.msg))
    /\ UNCHANGED <<SECRET_CODE, request, handlerRan, attachment, file_res,
                   file_bytes, compressed, content_type, branches, extracted, raw_text>>

\* The response has been sent; every request-scoped value is dropped.
Finish ==
    /\ pc = "done"
    /\ pc' = "idle"
    /\ request' = NoRequest
    /\ handlerRan' = FALSE
    /\ calls' = <<>>
    /\ attachment' = NoAttachment
    /\ file_res' = NoFileRes
    /\ file_bytes' = NoBytes
    /\ compressed' = <<None, None>>
    /\ content_type' = <<>>
    /\ branches' = <<>>
    /\ extracted' = "none"
    /\ raw_text' = <<>>
    /\ sent' = <<>>
    /\ upstream' = NoUpstream
    /\ response' = NoResponse
    /\ respCount' = 0
    /\ UNCHANGED SECRET_CODE

Next ==
    \/ Receive
    \/ auth_check
    \/ healthcheck
    \/ test_download_debug
    \/ fallback_get_attachment
    \/ analyze_content
    \/ analyze_attachment_lookup
    \/ analyze_attachment_download
    \/ analyze_attachment_size_guard
    \/ analyze_attachment_extract
    \/ analyze_attachment_model
    \/ Finish

Spec == Init /\ [][Next]_vars

\* ------------------------------------------------------------------ claims
Called(step) == \E i \in 1..Len(calls) : calls[i] = step
Done == pc = "done"
InAttachment == request.endpoint = "analyze_attachment" /\ handlerRan
PipelineSteps == <<"lookup", "download", "sizeguard", "extract", "model">>
IsPrefix(a, b) == Len(a) <= Len(b) /\ SubSeq(b, 1, Len(a)) = a
\* The attachment was resolved (the lookup returned an object).
Resolved == InAttachment /\ Called("lookup") /\ upstream.step # "lookup"
\* The length of the buffer as downloaded.
DownloadedLen == file_res.content.len
\* The request carries the secret the service was configured with.
Authorized == SECRET_CODE # None /\ request.header = SECRET_CODE
\* The "missing or empty" of a body field.
Lacking(v) == v.t = "none" \/ (v.t = "str" /\ v.s = <<>>)

\* C1: a request to a route other than /health whose X-Internal-Access header
\* is absent or differs from the secret gets 403, its handler never runs and
\* no lookup, download or model call is made for it.
C1_GateRejects ==
    (/\ request.endpoint \in Endpoints \ {"healthcheck"}
     /\ (request.header = None \/ request.header # SECRET_CODE))
    => /\ ~handlerRan
       /\ calls = <<>>
       /\ Done => response.status = 403

\* With the secret configured, the gate does what C1 says.
GateRejectsWhenConfigured ==
    (/\ SECRET_CODE # None
     /\ request.endpoint \in Endpoints \ {"healthcheck"}
     /\ (request.header = None \/ request.header # SECRET_CODE))
    => /\ ~handlerRan
       /\ calls = <<>>
       /\ Done => response.status = 403

\* C2: a download longer than 75*1024*1024 bytes ends the request with 200,
\* the compression notice and name + ".zip", with no extraction and no model
\* call; at or below that length the buffer comes back unchanged with no
\* termination signal and the pipeline goes on to extraction.
C2_SizeGuard ==
    (InAttachment /\ Called("sizeguard"))
    => IF DownloadedLen > 75 * 1024 * 1024
       THEN /\ Done
            /\ response.status = 200
            /\ response.kind = "note"
            /\ response.detail = attachment.name \o s_zip
            /\ ~Called("extract") /\ ~Called("model")
            /\ branches = <<>> /\ extracted = "none" /\ sent = <<>>
       ELSE /\ file_bytes = file_res.content
            /\ compressed = <<None, None>>
            /\ response.kind # "note"
            /\ \/ pc = "extract"
               \/ Called("extract")
               \/ (Done /\ response.status = 415)

C2_Witness ==
    /\ InAttachment /\ Done
    /\ DownloadedLen = 75 * 1024 * 1024 + 1
    /\ response.kind = "note"

\* The extractor has run for the request in flight.
PastExtract ==
    /\ InAttachment /\ Called("sizeguard") /\ compressed[1] = None
    /\ pc \in {"model", "done"}

\* C3: the extractor runs exactly one branch, the first of pdf, text,
\* spreadsheet/excel, wordprocessingml/msword whose substring occurs in the
\* MIME string; a MIME string with none of them gets 415 echoing the MIME
\* type, and no model call.
C3_DispatchOrder ==
    /\ Len(branches) <= 1
    /\ PastExtract =>
        LET ct == attachment.mime_type
            hasPdf == Contains(s_pdf, ct)
            hasText == Contains(s_text, ct)
            hasSheet == Contains(s_spreadsheet, ct) \/ Contains(s_excel, ct)
            hasWord == Contains(s_wordprocessingml, ct) \/ Contains(s_msword, ct)
        IN  /\ hasPdf => branches = <<"pdf">>
            /\ (~hasPdf /\ hasText) => branches = <<"text">>
            /\ (~hasPdf /\ ~hasText /\ hasSheet) => branches = <<"excel">>
            /\ (~hasPdf /\ ~hasText /\ ~hasSheet /\ hasWord) => branches = <<"docx">>
            /\ (~hasPdf /\ ~hasText /\ ~hasSheet /\ ~hasWord) =>
                  /\ branches = <<>>
                  /\ Done
                  /\ response.status = 415
                  /\ response.detail = ct
                  /\ ~Called("model") /\ sent = <<>>

C3_Witness ==
    /\ PastExtract
    /\ Contains(s_text, attachment.mime_type)
    /\ Contains(s_spreadsheet, attachment.mime_type)
    /\ branches = <<"text">>

\* C4: when the selected branch raises, or yields a text of length zero, the
\* response is 422 and the model call is never made.
C4_NoTextNoModel ==
    (InAttachment /\ (extracted = "raised" \/ (extracted = "text" /\ Len(raw_text) = 0)))
    => /\ Done
       /\ response.status = 422
       /\ ~Called("model")
       /\ sent = <<>>

C4_Witness ==
    /\ InAttachment /\ Done
    /\ extracted = "text" /\ Len(raw_text) = 0
    /\ response.status = 422

\* C5: when the metadata lookup or the download fails at the upstream (an
\* exception, or a failure status from the download URL), the request ends
\* with an error response carrying the upstream status or message, and neither
\* extraction nor the model call is attempted.
C5_FetchFailureEndsRequest ==
    (InAttachment /\ Authorized /\ upstream.step \in {"lookup", "download"})
    => /\ pc \notin {"extract", "model"}
       /\ ~Called("extract") /\ ~Called("model")
       /\ Done => /\ response.kind = "error"
                  /\ \/ response.detail = upstream.msg
                     \/ response.status = upstream.status

\* An exception from the lookup or from the download does end the request,
\* with 400 and the exception's message.
FetchExceptionEndsRequest ==
    (InAttachment /\ upstream.step \in {"lookup", "download"} /\ file_res = NoFileRes)
    => /\ Done
       /\ response = FetchFailed(upstream)
       /\ ~Called("sizeguard") /\ ~Called("extract") /\ ~Called("model")

\* C6: with a correct access header, when the metadata lookup raises, the response is 400 with an error
\* containing "Attachment fetch failed", and no download, extraction or
\* model call follows.
C6_LookupRaises ==
    (InAttachment /\ Authorized /\ upstream.step = "lookup")
    => /\ Done
       /\ response.status = 400
       /\ response.kind = "error"
       /\ response.msg = "Attachment fetch failed"
       /\ calls = <<"lookup">>
       /\ branches = <<>> /\ sent = <<>>

C6_Witness ==
    /\ InAttachment /\ Authorized
    /\ upstream.step = "lookup" /\ Done

\* C7: when the resolved attachment has no url attribute or a falsy url, the
\* response is 404 and download, extraction and model call are skipped.
C7_MissingUrl ==
    (Resolved /\ (~attachment.hasUrl \/ attachment.url \in {None, <<"">>}))
    => /\ Done
       /\ response.status = 404
       /\ calls = <<"lookup">>
       /\ file_res = NoFileRes
       /\ branches = <<>> /\ sent = <<>>

C7_Witness ==
    /\ Resolved /\ Done
    /\ attachment.hasUrl /\ attachment.url = <<"">>
    /\ response.status = 404

\* C8: an authorized POST /analyze whose body lacks content or query (missing
\* or empty) gets 400 and no model call; the model is called only when both
\* are present and non-empty.
C8_MissingFields ==
    (request.endpoint = "analyze_content" /\ handlerRan /\ Authorized)
    => LET data == request.body
           lacks == \/ data.kind # "object"
                    \/ Lacking(data.content)
                    \/ Lacking(data.query)
       IN  /\ lacks => (Done /\ response.status = 400 /\ ~Called("model"))
           /\ Called("model") => ~lacks

\* For a body that is a JSON object, /analyze does what C8 says.
MissingFieldsOfObject ==
    (/\ request.endpoint = "analyze_content" /\ handlerRan /\ Authorized
     /\ request.body.kind = "object")
    => LET data == request.body
           lacks == Lacking(data.content) \/ Lacking(data.query)
       IN  /\ lacks => (Done /\ response.status = 400 /\ ~Called("model"))
           /\ Called("model") => ~lacks

\* C9: the text in the user message sent to the model is the prefix of the
\* extracted or supplied text of length min(len(text), 8000), on both routes.
C9_TruncatedPrefix ==
    Called("model") =>
        LET onAttachment == request.endpoint = "analyze_attachment"
            text == IF onAttachment THEN raw_text ELSE request.body.content.s
            instruction == IF onAttachment THEN AnalyzeInstruction
                           ELSE request.body.query.s
            off == Len(instruction) + 2
            k == Len(sent) - off
        IN  /\ k = (IF Len(text) <= 8000 THEN Len(text) ELSE 8000)
            /\ \A i \in 1..k : sent[off + i] = text[i]

C9_Witness ==
    /\ InAttachment /\ Called("model")
    /\ Len(raw_text) = 8001
    /\ Len(sent) = Len(AnalyzeInstruction) + 2 + 8000

\* The part of C10 that does not depend on how a failed download is treated:
\* the steps occur in pipeline order, each at most once, one response per
\* request, and the model call has a usable URL, a download, a size at or
\* below the threshold and a non-empty text behind it.
PipelineOrder ==
    InAttachment =>
        /\ IsPrefix(calls, PipelineSteps)
        /\ respCount <= 1
        /\ Done <=> respCount = 1
        /\ Called("model") =>
              /\ attachment.hasUrl /\ attachment.url \notin {None, <<"">>}
              /\ Called("lookup") /\ Called("download")
              /\ DownloadedLen <= 75 * 1024 * 1024
              /\ extracted = "text" /\ Len(raw_text) > 0

\* C10: the steps of /analyze-attachment run in the order lookup, download,
\* size guard, extraction, model call, each at most once; the first failing
\* step ends the request; the request produces exactly one response; the
\* model call comes only after all the earlier steps succeeded.
C10_PipelineOrder ==
    /\ PipelineOrder
    /\ (InAttachment /\ Authorized /\ upstream.step # "none") =>
          /\ Done
          /\ calls[Len(calls)] = upstream.step
=============================================================================
